---- MODULE Spec2Model ----
(***************************************************************************)
(* Identity regeneration of a serialized workflow (walkoff/helpers.py):    *)
(* regenerate_workflow_ids, regenerate_ids and __regenerate_ids_of_list.   *)
(*                                                                         *)
(* A JSON value is a record [k, s, e, f]: k is the Python type ("str",     *)
(* "null", "list", "dict"), s the text of a str, e the elements of a list  *)
(* and f the items of a dict in insertion order, each [name, val].         *)
(***************************************************************************)
EXTENDS Integers, Sequences, FiniteSets, TLC

\* workflow: the document being mutated; workflow_in: the document as passed in;
\* json_in: the node of the latest regenerate_ids call as the call left it, and
\* json_old the same node when the call began; regenerate_id, is_arguments:
\* the flags of that call; lookups: every key looked up in action_mapping so far;
\* failed: the field whose lookup raised.
VARIABLES workflow, workflow_in, action_mapping, uuid, pc, i, failed, lookups,
          json_in, json_old, regenerate_id, is_arguments

vars == <<workflow, workflow_in, action_mapping, uuid, pc, i, failed, lookups,
          json_in, json_old, regenerate_id, is_arguments>>

call == <<json_in, json_old, regenerate_id, is_arguments>>

\* ------------------------------------------------------------------------
\* JSON values
\* ------------------------------------------------------------------------
Str(s) == [k |-> "str", s |-> s, e |-> <<>>, f |-> <<>>]

None == [k |-> "null", s |-> "", e |-> <<>>, f |-> <<>>]

List(e) == [k |-> "list", s |-> "", e |-> e, f |-> <<>>]

Dict(f) == [k |-> "dict", s |-> "", e |-> <<>>, f |-> f]

Item(n, v) == [name |-> n, val |-> v]

\* Truthy with only None taken as falsy
TruthyNotNone(v) == v.k # "null"

\* Python truth value of a JSON value: None, '', [] and {} are falsy.
Truthy(v) ==
    CASE v.k = "str" -> v.s # ""
      [] v.k = "null" -> FALSE
      [] v.k = "list" -> Len(v.e) > 0
      [] v.k = "dict" -> Len(v.f) > 0

\* 'name' in d
Has(d, n) == \E j \in 1..Len(d.f) : d.f[j].name = n

Idx(d, n) == CHOOSE j \in 1..Len(d.f) : d.f[j].name = n

\* d[name]
Get(d, n) == d.f[Idx(d, n)].val

\* d[name] = v : an existing key keeps its position, a new key goes last
Put(d, n, v) ==
    IF Has(d, n) THEN [d EXCEPT !.f[Idx(d, n)].val = v]
    ELSE [d EXCEPT !.f = Append(@, Item(n, v))]

\* Pop as d.popitem(): the last item goes, whatever its name
PopItem(d, n) == [d EXCEPT !.f = SubSeq(@, 1, Len(@) - 1)]

\* d.pop(name, None)
Pop(d, n) == [d EXCEPT !.f = SelectSeq(@, LAMBDA x : x.name # n)]

\* d.get(name, [])
GetList(d, n) == IF Has(d, n) THEN Get(d, n).e ELSE <<>>

\* Uuid4 returning the same value at every draw
Uuid4Same(n) == Str("1")

\* str(uuid4()): the n-th value drawn from the generator, never seen before
Uuid4(n) == Str(ToString(n))

\* action_mapping = {}
EmptyMapping == [x \in {} |-> ""]

\* Resolve as action_mapping.get(key, key): a missing key resolves to itself
ResolveOrKeep(mapping, key) ==
    IF key.k = "str" /\ key.s \in DOMAIN mapping
    THEN [ok |-> TRUE, val |-> Str(mapping[key.s])]
    ELSE [ok |-> TRUE, val |-> key]

\* action_mapping[key]: the value, or KeyError (TypeError for an unhashable key)
Resolve(mapping, key) ==
    IF key.k = "str" /\ key.s \in DOMAIN mapping
    THEN [ok |-> TRUE, val |-> Str(mapping[key.s])]
    ELSE [ok |-> FALSE, val |-> key]

\* ------------------------------------------------------------------------
\* regenerate_ids and __regenerate_ids_of_list.  Each returns the node as
\* mutated so far, the generator position, whether an exception escaped and
\* the keys looked up in the mapping.
\* ------------------------------------------------------------------------
RECURSIVE regenerate_ids(_, _, _, _, _, _)
RECURSIVE regenerate_ids_items(_, _, _, _, _)
RECURSIVE regenerate_ids_of_list(_, _, _, _, _, _)

ArgumentFields == {"arguments", "device_id"}

\* AssignId that keeps an id the node already has
AssignIdIfMissing(node, regen, n) ==
    IF regen /\ ~Has(node, "id") THEN Put(node, "id", Uuid4(n)) ELSE node

AssignId(node, regen, n) == IF regen THEN Put(node, "id", Uuid4(n)) ELSE node

\* SuppressId that never removes the id
SuppressIdNever(node, is_args) == node

SuppressId(node, is_args) == IF is_args THEN Pop(node, "id") ELSE node

\* HasReference with the truth test inverted
HasReferenceInverted(node) == Has(node, "reference") /\ ~Truthy(Get(node, "reference"))

HasReference(node) == Has(node, "reference") /\ Truthy(Get(node, "reference"))

\* IsArgumentsField that forgets device_id
IsArgumentsFieldOnly(field) == field = "arguments"

IsArgumentsField(field) == field \in ArgumentFields

regenerate_ids(node, mapping, regen, is_args, n, log) ==
    LET j1 == AssignId(node, regen, n)
        n1 == IF regen THEN n + 1 ELSE n
        j2 == SuppressId(j1, is_args)
    IN  IF HasReference(j2)
        THEN LET key == Get(j2, "reference")
             IN  IF Resolve(mapping, key).ok
                 THEN regenerate_ids_items(Put(j2, "reference", Resolve(mapping, key).val),
                                           mapping, 1, n1, Append(log, key))
                 ELSE [json |-> j2, uuid |-> n1, err |-> TRUE, lookups |-> Append(log, key)]
        ELSE regenerate_ids_items(j2, mapping, 1, n1, log)

\* for field, value in json_in.items(), from the x-th item on
regenerate_ids_items(node, mapping, x, n, log) ==
    IF x > Len(node.f)
    THEN [json |-> node, uuid |-> n, err |-> FALSE, lookups |-> log]
    ELSE LET field == node.f[x].name
             value == node.f[x].val
             is_args == IsArgumentsField(field)
             r == IF value.k = "list"
                  THEN regenerate_ids_of_list(value, mapping, is_args, 1, n, log)
                  ELSE IF value.k = "dict"
                  THEN regenerate_ids(value, mapping, TRUE, is_args, n, log)
                  ELSE [json |-> value, uuid |-> n, err |-> FALSE, lookups |-> log]
             j == [node EXCEPT !.f[x].val = r.json]
         IN  IF r.err
             THEN [json |-> j, uuid |-> r.uuid, err |-> TRUE, lookups |-> r.lookups]
             ELSE regenerate_ids_items(j, mapping, x + 1, r.uuid, r.lookups)

\* the elements of the list that are dicts, from the x-th element on
regenerate_ids_of_list(value, mapping, is_args, x, n, log) ==
    IF x > Len(value.e)
    THEN [json |-> value, uuid |-> n, err |-> FALSE, lookups |-> log]
    ELSE IF value.e[x].k # "dict"
    THEN regenerate_ids_of_list(value, mapping, is_args, x + 1, n, log)
    ELSE LET r == regenerate_ids(value.e[x], mapping, TRUE, is_args, n, log)
             v == [value EXCEPT !.e[x] = r.json]
         IN  IF r.err
             THEN [json |-> v, uuid |-> r.uuid, err |-> TRUE, lookups |-> r.lookups]
             ELSE regenerate_ids_of_list(v, mapping, is_args, x + 1, r.uuid, r.lookups)

\* ------------------------------------------------------------------------
\* Input documents
\* ------------------------------------------------------------------------
MaxActions == 2

MaxBranches == 2

\* the id of the action at each position of the input, apart from duplicates
ActionIds == <<"a", "b", "c", "d">>

\* an argument with an id, a reference and a dict value, an argument with an
\* empty reference, and a scalar element
Arguments(r) ==
    List(<<Dict(<<Item("id", Str("x")), Item("reference", Str(r)),
                  Item("value", Dict(<<Item("id", Str("y")), Item("name", Str("n"))>>))>>),
           Dict(<<Item("name", Str("n")), Item("reference", Str(""))>>),
           Str("s")>>)

\* a list whose only element is a list holding a dict
NestedList(r) ==
    List(<<List(<<Dict(<<Item("id", Str("x")), Item("reference", Str(r))>>)>>)>>)

ActionKinds == {"plain", "ref_a", "ref_b", "ref_z", "args_a", "args_z", "nested_a", "nested_z",
                "duplicate", "no_id"}

PlainActionKinds == {"plain", "ref_a"}

ActionBody(kind, p) ==
    LET id == Item("id", Str(ActionIds[p]))
        name == Item("name", Str("n"))
    IN  CASE kind = "plain" -> Dict(<<id, name>>)
          [] kind = "ref_a" -> Dict(<<id, Item("reference", Str("a")), name>>)
          [] kind = "ref_b" -> Dict(<<id, Item("reference", Str("b")), name>>)
          [] kind = "ref_z" -> Dict(<<id, Item("reference", Str("z")), name>>)
          [] kind = "args_a" ->
               Dict(<<id, Item("arguments", Arguments("a")),
                      Item("device_id", Dict(<<Item("id", Str("d"))>>)),
                      Item("conditions", List(<<Dict(<<name>>)>>))>>)
          [] kind = "args_z" ->
               Dict(<<id, Item("arguments", Arguments("z")),
                      Item("device_id", Dict(<<Item("id", Str("d"))>>))>>)
          [] kind = "nested_a" -> Dict(<<id, Item("arguments", NestedList("a"))>>)
          [] kind = "nested_z" -> Dict(<<id, Item("arguments", NestedList("z"))>>)
          [] kind = "duplicate" -> Dict(<<Item("id", Str("a")), name>>)
          [] kind = "no_id" -> Dict(<<name>>)

\* lists of 1..MaxActions actions, at most one of them of a kind with nested content
ActionLists ==
    UNION { { [p \in 1..n |-> ActionBody(IF p = q THEN fk ELSE o[p], p)] :
                q \in 1..n, fk \in ActionKinds, o \in [1..n -> PlainActionKinds] } :
            n \in 1..MaxActions }

BranchKinds == {"a_a", "a_b", "b_a", "a_z", "z_a", "cond_b", "cond_z"}

PlainBranchKinds == {"b_a"}

BranchBody(kind) ==
    LET id == Item("id", Str("e"))
        br(s, d) == <<id, Item("source_id", Str(s)), Item("destination_id", Str(d))>>
        cond(r) == Item("conditions",
                        List(<<Dict(<<Item("id", Str("c")), Item("reference", Str(r))>>)>>))
    IN  CASE kind = "a_a" -> Dict(br("a", "a"))
          [] kind = "a_b" -> Dict(br("a", "b"))
          [] kind = "b_a" -> Dict(br("b", "a"))
          [] kind = "a_z" -> Dict(br("a", "z"))
          [] kind = "z_a" -> Dict(br("z", "a"))
          [] kind = "cond_b" -> Dict(Append(br("a", "a"), cond("b")))
          [] kind = "cond_z" -> Dict(Append(br("a", "a"), cond("z")))

BranchLists ==
    UNION { { [p \in 1..n |-> BranchBody(IF p = q THEN fk ELSE o[p])] :
                q \in 1..n, fk \in BranchKinds, o \in [1..n -> PlainBranchKinds] } :
            n \in 1..MaxBranches }

StartIds == {"a", "b", "z"}

\* a workflow document; without branches the 'branches' field is absent
Workflows ==
    { Dict(<<Item("id", Str("w")), Item("name", Str("n")), Item("start", Str(s)),
             Item("actions", List(as))>>) : s \in StartIds, as \in ActionLists }
    \cup
    { Dict(<<Item("id", Str("w")), Item("name", Str("n")), Item("start", Str(s)),
             Item("actions", List(as)), Item("branches", List(bs))>>) :
        s \in StartIds, as \in ActionLists, bs \in BranchLists }

\* ------------------------------------------------------------------------
\* regenerate_workflow_ids, one step per statement of its loops
\* ------------------------------------------------------------------------
Actions(wf) == GetList(wf, "actions")

Branches(wf) == GetList(wf, "branches")

SetAction(wf, p, a) == Put(wf, "actions", List([Actions(wf) EXCEPT ![p] = a]))

SetBranch(wf, p, b) == Put(wf, "branches", List([Branches(wf) EXCEPT ![p] = b]))

\* Remember with key and value exchanged
RememberReversed(mapping, prev_id, new_id) == (new_id :> prev_id) @@ mapping

\* action_mapping[prev_id] = action['id']
Remember(mapping, prev_id, new_id) == (prev_id :> new_id) @@ mapping

\* MappingPassDone that ends the first loop after one action
MappingPassDoneEarly(wf, x) == x > 1

\* the first loop over the actions has visited all of them
MappingPassDone(wf, x) == x > Len(Actions(wf))

Init ==
    /\ workflow \in Workflows
    /\ workflow_in = workflow
    /\ action_mapping = EmptyMapping
    /\ uuid = 1
    /\ pc = "begin"
    /\ i = 1
    /\ failed = ""
    /\ lookups = <<>>
    /\ json_in = Dict(<<>>)
    /\ json_old = json_in
    /\ regenerate_id = FALSE
    /\ is_arguments = FALSE

\* workflow['id'] = str(uuid4()); action_mapping = {}
SetWorkflowId ==
    /\ pc = "begin"
    /\ workflow' = Put(workflow, "id", Uuid4(uuid))
    /\ uuid' = uuid + 1
    /\ pc' = "map"
    /\ i' = 1
    /\ UNCHANGED <<workflow_in, action_mapping, failed, lookups, call>>

\* prev_id = action['id']; action['id'] = str(uuid4()); action_mapping[prev_id] = action['id']
MapAction ==
    /\ pc = "map"
    /\ ~MappingPassDone(workflow, i)
    /\ LET action == Actions(workflow)[i]
       IN  IF Has(action, "id")
           THEN /\ workflow' = SetAction(workflow, i, Put(action, "id", Uuid4(uuid)))
                /\ action_mapping' = Remember(action_mapping, Get(action, "id").s, Uuid4(uuid).s)
                /\ uuid' = uuid + 1
                /\ i' = i + 1
                /\ UNCHANGED <<pc, failed>>
           ELSE /\ pc' = "error"
                /\ failed' = "id"
                /\ UNCHANGED <<workflow, action_mapping, uuid, i>>
    /\ UNCHANGED <<workflow_in, lookups, call>>

MapDone ==
    /\ pc = "map"
    /\ MappingPassDone(workflow, i)
    /\ pc' = "rewrite"
    /\ i' = 1
    /\ UNCHANGED <<workflow, workflow_in, action_mapping, uuid, failed, lookups, call>>

\* regenerate_ids(action, action_mapping, regenerate_id=False)
RewriteAction ==
    /\ pc = "rewrite"
    /\ i <= Len(Actions(workflow))
    /\ LET r == regenerate_ids(Actions(workflow)[i], action_mapping, FALSE, FALSE, uuid, lookups)
       IN  /\ workflow' = SetAction(workflow, i, r.json)
           /\ json_old' = Actions(workflow)[i]
           /\ json_in' = r.json
           /\ uuid' = r.uuid
           /\ lookups' = r.lookups
           /\ IF r.err
              THEN pc' = "error" /\ failed' = "reference" /\ i' = i
              ELSE pc' = pc /\ failed' = failed /\ i' = i + 1
    /\ regenerate_id' = FALSE
    /\ is_arguments' = FALSE
    /\ UNCHANGED <<workflow_in, action_mapping>>

RewriteDone ==
    /\ pc = "rewrite"
    /\ i > Len(Actions(workflow))
    /\ pc' = "source"
    /\ i' = 1
    /\ UNCHANGED <<workflow, workflow_in, action_mapping, uuid, failed, lookups, call>>

\* branch[field] = action_mapping[branch[field]]
RewriteEndpoint(field, next) ==
    /\ i <= Len(Branches(workflow))
    /\ LET branch == Branches(workflow)[i]
           key == Get(branch, field)
       IN  /\ lookups' = Append(lookups, key)
           /\ IF Resolve(action_mapping, key).ok
              THEN /\ workflow' = SetBranch(workflow, i,
                                            Put(branch, field, Resolve(action_mapping, key).val))
                   /\ pc' = next
                   /\ failed' = failed
              ELSE /\ workflow' = workflow
                   /\ pc' = "error"
                   /\ failed' = field
    /\ UNCHANGED <<workflow_in, action_mapping, uuid, i, call>>

BranchSource == pc = "source" /\ RewriteEndpoint("source_id", "destination")

BranchDestination == pc = "destination" /\ RewriteEndpoint("destination_id", "branch")

\* regenerate_ids(branch, action_mapping)
RewriteBranch ==
    /\ pc = "branch"
    /\ LET r == regenerate_ids(Branches(workflow)[i], action_mapping, TRUE, FALSE, uuid, lookups)
       IN  /\ workflow' = SetBranch(workflow, i, r.json)
           /\ json_old' = Branches(workflow)[i]
           /\ json_in' = r.json
           /\ uuid' = r.uuid
           /\ lookups' = r.lookups
           /\ IF r.err
              THEN pc' = "error" /\ failed' = "reference" /\ i' = i
              ELSE pc' = "source" /\ failed' = failed /\ i' = i + 1
    /\ regenerate_id' = TRUE
    /\ is_arguments' = FALSE
    /\ UNCHANGED <<workflow_in, action_mapping>>

BranchesDone ==
    /\ pc = "source"
    /\ i > Len(Branches(workflow))
    /\ pc' = "start"
    /\ UNCHANGED <<workflow, workflow_in, action_mapping, uuid, i, failed, lookups, call>>

\* workflow['start'] = action_mapping[workflow['start']]
SetStart ==
    /\ pc = "start"
    /\ LET key == Get(workflow, "start")
       IN  /\ lookups' = Append(lookups, key)
           /\ IF Resolve(action_mapping, key).ok
              THEN /\ workflow' = Put(workflow, "start", Resolve(action_mapping, key).val)
                   /\ pc' = "done"
                   /\ failed' = failed
              ELSE /\ workflow' = workflow
                   /\ pc' = "error"
                   /\ failed' = "start"
    /\ UNCHANGED <<workflow_in, action_mapping, uuid, i, call>>

Next ==
    \/ SetWorkflowId
    \/ MapAction
    \/ MapDone
    \/ RewriteAction
    \/ RewriteDone
    \/ BranchSource
    \/ BranchDestination
    \/ RewriteBranch
    \/ BranchesDone
    \/ SetStart

Spec == Init /\ [][Next]_vars

\* ------------------------------------------------------------------------
\* regenerate_ids applied directly to one node
\* ------------------------------------------------------------------------
ReferenceValues ==
    {Str(""), None, List(<<>>), Dict(<<>>), Str("a"), Str("z"), List(<<Str("a")>>)}

NodeIdItems == {<<>>, <<Item("id", Str("x"))>>}

NodeReferenceItems == {<<>>} \cup {<<Item("reference", v)>> : v \in ReferenceValues}

NodeChildItems ==
    {<<>>,
     <<Item("arguments", List(<<Dict(<<Item("id", Str("y"))>>), Str("s")>>))>>,
     <<Item("value", Dict(<<Item("reference", Str("a"))>>))>>}

\* a node with or without an id, a reference and a child, the reference before
\* or after the child
Nodes ==
    {Dict(a \o b \o c) : a \in NodeIdItems, b \in NodeReferenceItems, c \in NodeChildItems}
    \cup
    {Dict(a \o c \o b) : a \in NodeIdItems, b \in NodeReferenceItems, c \in NodeChildItems}

Mappings == {EmptyMapping, "a" :> "m"}

InitRI ==
    /\ json_in \in Nodes
    /\ json_old = json_in
    /\ action_mapping \in Mappings
    /\ regenerate_id \in BOOLEAN
    /\ is_arguments \in BOOLEAN
    /\ uuid = 1
    /\ pc = "call"
    /\ lookups = <<>>
    /\ failed = ""
    /\ i = 1
    /\ workflow = Dict(<<>>)
    /\ workflow_in = workflow

\* regenerate_ids(json_in, action_mapping, regenerate_id, is_arguments)
CallRegenerateIds ==
    /\ pc = "call"
    /\ LET r == regenerate_ids(json_in, action_mapping, regenerate_id, is_arguments,
                               uuid, lookups)
       IN  /\ json_in' = r.json
           /\ uuid' = r.uuid
           /\ lookups' = r.lookups
           /\ pc' = IF r.err THEN "error" ELSE "returned"
           /\ failed' = IF r.err THEN "reference" ELSE failed
    /\ UNCHANGED <<workflow, workflow_in, action_mapping, i, json_old, regenerate_id,
                   is_arguments>>

NextRI == CallRegenerateIds

SpecRI == InitRI /\ [][NextRI]_vars
\* ------------------------------------------------------------------------
\* Properties
\* ------------------------------------------------------------------------
\* A path leads from a value to a dict inside it: one step per field of a
\* dict (by name) and per element of a list (by position).
Fld(n) == [name |-> n, idx |-> 0]

Elt(j) == [name |-> "", idx |-> j]

RECURSIVE DictPaths(_)
DictPaths(v) ==
    CASE v.k = "dict" ->
           {<<>>} \cup UNION { { <<Fld(v.f[j].name)>> \o p : p \in DictPaths(v.f[j].val) } :
                               j \in 1..Len(v.f) }
      [] v.k = "list" ->
           UNION { { <<Elt(j)>> \o p : p \in DictPaths(v.e[j]) } : j \in 1..Len(v.e) }
      [] OTHER -> {}

RECURSIVE At(_, _)
At(v, p) ==
    IF Len(p) = 0 THEN v
    ELSE IF Head(p).name # "" THEN At(Get(v, Head(p).name), Tail(p))
    ELSE At(v.e[Head(p).idx], Tail(p))

\* the dicts inside an action or a branch, the action or branch included
InnerPaths(wf) ==
    {p \in DictPaths(wf) : Len(p) >= 2 /\ p[1].name \in {"actions", "branches"}}

\* the walk of regenerate_ids descends through dict-valued fields and through
\* the dict elements of list-valued fields, not through a list inside a list
Reached(p) == \A j \in 1..(Len(p) - 1) : ~(p[j].name = "" /\ p[j + 1].name = "")

\* the falsy JSON values: '', None, [] and {}
FalsyValues == {Str(""), None, List(<<>>), Dict(<<>>)}

\* the node has a reference field holding a truthy value
TruthyReference(node) == Has(node, "reference") /\ Get(node, "reference") \notin FalsyValues

ActionPath(p) == <<Fld("actions"), Elt(p)>>

BranchPath(p) == <<Fld("branches"), Elt(p)>>

ActionCount == Len(Actions(workflow_in))

BranchCount == Len(Branches(workflow_in))

IdIn(p) == Get(Actions(workflow_in)[p], "id")

IdOut(p) == Get(Actions(workflow)[p], "id")

AllHaveIds == \A p \in 1..ActionCount : Has(Actions(workflow_in)[p], "id")

DistinctActionIds ==
    /\ AllHaveIds
    /\ \A p, q \in 1..ActionCount : p # q => IdIn(p) # IdIn(q)

\* v is the input id of an action of the workflow
NamesAction(v) ==
    \E p \in 1..ActionCount : Has(Actions(workflow_in)[p], "id") /\ IdIn(p) = v

\* the last action whose input id is v
LastNamed(v) ==
    CHOOSE p \in 1..ActionCount :
        /\ IdIn(p) = v
        /\ \A q \in (p + 1)..ActionCount : IdIn(q) # v

EndpointsNameActions ==
    /\ NamesAction(Get(workflow_in, "start"))
    /\ \A b \in 1..BranchCount :
         /\ NamesAction(Get(Branches(workflow_in)[b], "source_id"))
         /\ NamesAction(Get(Branches(workflow_in)[b], "destination_id"))

ReachedReferencesNameActions ==
    \A p \in InnerPaths(workflow_in) :
        (Reached(p) /\ TruthyReference(At(workflow_in, p)))
            => NamesAction(Get(At(workflow_in, p), "reference"))

CurrentActionIds == {IdOut(p) : p \in 1..Len(Actions(workflow))}

\* the output graph is the input graph relabelled by m : old action id -> new action id
Isomorphic ==
    LET m(v) == IdOut(LastNamed(v))
    IN  /\ Len(Actions(workflow)) = ActionCount
        /\ Len(Branches(workflow)) = BranchCount
        /\ \A p, q \in 1..ActionCount : p # q => IdOut(p) # IdOut(q)
        /\ \A p \in 1..ActionCount :
             /\ IdOut(p) # IdIn(p)
             /\ IdIn(p).s \in DOMAIN action_mapping
             /\ action_mapping[IdIn(p).s] = IdOut(p).s
        /\ Get(workflow, "start") = m(Get(workflow_in, "start"))
        /\ Get(workflow, "start") \in CurrentActionIds
        /\ \A b \in 1..BranchCount :
             LET old == Branches(workflow_in)[b]
                 new == Branches(workflow)[b]
             IN  /\ Get(new, "source_id") = m(Get(old, "source_id"))
                 /\ Get(new, "destination_id") = m(Get(old, "destination_id"))
                 /\ Get(new, "source_id") \in CurrentActionIds
                 /\ Get(new, "destination_id") \in CurrentActionIds

CompletesIsomorphic ==
    /\ pc # "error"
    /\ pc = "done" => Isomorphic

\* C1 as stated: a workflow with pairwise distinct action ids whose start and
\* branch endpoints name actions is regenerated to completion, and the result
\* is the same graph with the action ids relabelled.
C1_AsStated == (DistinctActionIds /\ EndpointsNameActions) => CompletesIsomorphic

\* C1 amended: the same, for workflows in which moreover every truthy
\* reference that the walk reaches names an action of the workflow.
C1_TopologyPreserved ==
    (DistinctActionIds /\ EndpointsNameActions /\ ReachedReferencesNameActions)
        => CompletesIsomorphic

C1_Witness ==
    /\ pc = "done"
    /\ DistinctActionIds
    /\ ActionCount >= 2
    /\ BranchCount >= 2
    /\ \E b \in 1..BranchCount :
         Get(Branches(workflow_in)[b], "source_id") # Get(Branches(workflow_in)[b], "destination_id")

\* the node at p had a truthy reference and now holds the new id of the action
\* that reference named
ReferenceRewritten(p) ==
    LET old == Get(At(workflow_in, p), "reference")
        new == Get(At(workflow, p), "reference")
    IN  /\ Resolve(action_mapping, old).ok
        /\ new = Resolve(action_mapping, old).val
        /\ new = IdOut(LastNamed(old))

\* C2 as stated: after regeneration every node at any depth inside an action
\* or a branch that had a truthy reference holds mapping[reference], the new
\* id of the action the reference named.
C2_AsStated ==
    (pc = "done" /\ DistinctActionIds) =>
        \A p \in InnerPaths(workflow_in) :
            TruthyReference(At(workflow_in, p)) => ReferenceRewritten(p)

\* C2 amended: after regeneration every node that the walk reaches (through
\* dict-valued fields and dict elements of list-valued fields) and that had a
\* truthy reference holds mapping[reference], the final id of the last action
\* whose input id was that reference.
C2_ReferenceConsistency ==
    pc = "done" =>
        \A p \in InnerPaths(workflow_in) :
            (Reached(p) /\ TruthyReference(At(workflow_in, p))) => ReferenceRewritten(p)

C2_Witness ==
    /\ pc = "done"
    /\ \E p \in InnerPaths(workflow_in) :
         /\ Len(p) > 2
         /\ Reached(p)
         /\ TruthyReference(At(workflow_in, p))
         /\ Get(At(workflow, p), "reference") # Get(At(workflow_in, p), "reference")

Dangling(v) == ~NamesAction(v)

\* C3 as stated: a start, a branch endpoint or a truthy nested reference that
\* is not the input id of an action makes the regeneration end in an error.
C3_AsStated ==
    (\/ Dangling(Get(workflow_in, "start"))
     \/ \E b \in 1..BranchCount :
          \/ Dangling(Get(Branches(workflow_in)[b], "source_id"))
          \/ Dangling(Get(Branches(workflow_in)[b], "destination_id"))
     \/ \E p \in InnerPaths(workflow_in) :
          TruthyReference(At(workflow_in, p)) /\ Dangling(Get(At(workflow_in, p), "reference")))
    => pc # "done"

\* C3 amended: a start, a branch endpoint, or a truthy reference of a node
\* that the walk reaches, that is not the input id of an action makes the
\* regeneration end in an error: it never completes.
C3_DanglingAborts ==
    (\/ Dangling(Get(workflow_in, "start"))
     \/ \E b \in 1..BranchCount :
          \/ Dangling(Get(Branches(workflow_in)[b], "source_id"))
          \/ Dangling(Get(Branches(workflow_in)[b], "destination_id"))
     \/ ~ReachedReferencesNameActions)
    => pc # "done"

C3_Witness ==
    /\ pc = "error"
    /\ failed = "reference"
    /\ \E p \in InnerPaths(workflow_in) :
         /\ Len(p) > 2
         /\ Reached(p)
         /\ TruthyReference(At(workflow_in, p))
         /\ Dangling(Get(At(workflow_in, p), "reference"))
         /\ Get(At(workflow, p), "reference") = Get(At(workflow_in, p), "reference")

\* every value held by an id field anywhere in the document
IdValues(v) == {Get(At(v, p), "id") : p \in {q \in DictPaths(v) : Has(At(v, q), "id")}}

\* the workflow, its actions and its branches
Owners ==
    {<<>>} \cup {ActionPath(p) : p \in 1..ActionCount} \cup {BranchPath(b) : b \in 1..BranchCount}

\* C4: after a successful regeneration the ids of the workflow, of every action
\* and of every branch differ from one another, from every id of the input
\* document and from every other id of the output document.
C4_IdentityFreshness ==
    pc = "done" =>
        \A o \in Owners :
            /\ Has(At(workflow, o), "id")
            /\ Get(At(workflow, o), "id") \notin IdValues(workflow_in)
            /\ \A p \in DictPaths(workflow) \ {o} :
                 Has(At(workflow, p), "id") => Get(At(workflow, p), "id") # Get(At(workflow, o), "id")

C4_Witness ==
    /\ pc = "done"
    /\ ActionCount >= 2
    /\ BranchCount >= 1
    /\ \E p \in DictPaths(workflow) \ Owners :
         Has(At(workflow, p), "id") /\ Get(At(workflow, p), "id") \notin IdValues(workflow_in)

\* some field on the way from the action or branch to the node is an argument field
UnderArguments(p) == \E j \in 3..Len(p) : p[j].name \in ArgumentFields

\* the node is the dict value of an argument field of a reached node, or a dict
\* element of the list under it
DirectlyUnderArguments(p) ==
    /\ Len(p) >= 3
    /\ Reached(p)
    /\ \/ p[Len(p)].name \in ArgumentFields
       \/ p[Len(p)].name = "" /\ p[Len(p) - 1].name \in ArgumentFields

\* C5 as stated: after a successful regeneration no node nested at any depth
\* under an arguments or device_id field still has the id field it had.
C5_AsStated ==
    pc = "done" =>
        \A p \in InnerPaths(workflow_in) :
            (UnderArguments(p) /\ Has(At(workflow_in, p), "id")) => ~Has(At(workflow, p), "id")

\* C5 amended: after a successful regeneration, a node that is the dict value
\* of, or a dict element of the list under, an arguments or device_id field of
\* a node the walk reaches has no id field if it had one.
C5_ArgumentIdsSuppressed ==
    pc = "done" =>
        \A p \in InnerPaths(workflow_in) :
            (DirectlyUnderArguments(p) /\ Has(At(workflow_in, p), "id"))
                => ~Has(At(workflow, p), "id")

C5_Witness ==
    /\ pc = "done"
    /\ \E p, q \in InnerPaths(workflow_in) :
         /\ DirectlyUnderArguments(p) /\ p[Len(p)].name = "device_id"
         /\ DirectlyUnderArguments(q) /\ q[Len(q)].name = ""
         /\ Has(At(workflow_in, p), "id") /\ ~Has(At(workflow, p), "id")
         /\ Has(At(workflow_in, q), "id") /\ ~Has(At(workflow, q), "id")

ReservedFields == {"id", "reference", "start", "source_id", "destination_id"}

\* the document without the fields that regeneration may change
RECURSIVE Payload(_)
Payload(v) ==
    CASE v.k = "dict" ->
           LET g == SelectSeq(v.f, LAMBDA x : x.name \notin ReservedFields)
           IN  Dict([j \in 1..Len(g) |-> Item(g[j].name, Payload(g[j].val))])
      [] v.k = "list" -> List([j \in 1..Len(v.e) |-> Payload(v.e[j])])
      [] OTHER -> v

\* C6: regeneration changes only id, reference, start, source_id and
\* destination_id fields: every other field of every node, and every list,
\* is as in the input, in every state of the run.
C6_PayloadUnchanged == Payload(workflow) = Payload(workflow_in)

C6_Witness ==
    /\ pc = "done"
    /\ \E p, q \in InnerPaths(workflow_in) :
         /\ Has(At(workflow_in, p), "id") /\ ~Has(At(workflow, p), "id")
         /\ ~Has(At(workflow_in, q), "id") /\ Has(At(workflow, q), "id")
         /\ Has(At(workflow, p), "value")
         /\ Has(At(workflow, q), "name")

MappingTotal ==
    \A p \in 1..ActionCount :
        Has(Actions(workflow_in)[p], "id") /\ IdIn(p).s \in DOMAIN action_mapping

\* C7: no key is looked up in the mapping before the mapping holds the old id
\* of every action, and once the actions are rewritten a reference of an action
\* to a later action holds that action's new id.
C7_MappingCompleteBeforeLookup ==
    /\ Len(lookups) > 0 => MappingTotal
    /\ pc \in {"source", "destination", "branch", "start", "done"} =>
         \A p \in 1..ActionCount :
             LET old == Actions(workflow_in)[p]
             IN  (TruthyReference(old) /\ \E q \in (p + 1)..ActionCount : IdIn(q) = Get(old, "reference"))
                     => Get(Actions(workflow)[p], "reference") = IdOut(LastNamed(Get(old, "reference")))

C7_Witness ==
    /\ pc = "done"
    /\ ActionCount >= 2
    /\ TruthyReference(Actions(workflow_in)[1])
    /\ Get(Actions(workflow_in)[1], "reference") = IdIn(2)
    /\ Get(Actions(workflow)[1], "reference") = IdOut(2)

\* C8: a call of regenerate_ids with regenerate_id and is_arguments both true
\* draws an id and leaves the node without an id field, whether it had one or not.
C8_SuppressionWins ==
    (pc # "call" /\ regenerate_id /\ is_arguments) => (uuid > 1 /\ ~Has(json_in, "id"))

C8_Witness ==
    /\ pc = "returned"
    /\ regenerate_id
    /\ is_arguments
    /\ Has(json_old, "id")

ReferenceField(node) == IF Has(node, "reference") THEN <<Get(node, "reference")>> ELSE <<>>

\* the nodes below the node of the call that have a truthy reference
TruthyBelow == {p \in DictPaths(json_old) \ {<<>>} : TruthyReference(At(json_old, p))}

\* no lookup and no failure is due to the reference of the node of the call
NoLookupOfOwnReference ==
    /\ Len(lookups) <= Cardinality(TruthyBelow)
    /\ \A x \in 1..Len(lookups) : lookups[x] \notin FalsyValues
    /\ TruthyBelow = {} => pc = "returned"

\* C9 as stated: a node whose reference is absent or falsy causes no lookup and
\* no failure, and its reference field is left exactly as it was.
C9_AsStated ==
    (pc # "call" /\ ~TruthyReference(json_old)) =>
        /\ NoLookupOfOwnReference
        /\ ReferenceField(json_in) = ReferenceField(json_old)

\* C9 amended: a node whose reference is absent or falsy causes no lookup and
\* no failure; its reference field is left exactly as it was unless it is an
\* empty dict, which is walked like any dict-valued field and has been given an
\* id when the call returns.
C9_FalsyReferenceSkipped ==
    (pc # "call" /\ ~TruthyReference(json_old)) =>
        /\ NoLookupOfOwnReference
        /\ ReferenceField(json_old) # <<Dict(<<>>)>>
             => ReferenceField(json_in) = ReferenceField(json_old)
        /\ (ReferenceField(json_old) = <<Dict(<<>>)>> /\ pc = "returned")
             => /\ Has(json_in, "reference")
                /\ Has(Get(json_in, "reference"), "id")

C9_Witness ==
    /\ pc = "returned"
    /\ action_mapping = EmptyMapping
    /\ ReferenceField(json_old) = <<Str("")>>
    /\ ReferenceField(json_in) = <<Str("")>>
    /\ Has(json_in, "arguments")

\* the branches before position k are fully rewritten
RewrittenBefore(k) ==
    \A b \in 1..(k - 1) :
        LET old == Branches(workflow_in)[b]
            new == Branches(workflow)[b]
        IN  /\ Resolve(action_mapping, Get(old, "source_id")).ok
            /\ Resolve(action_mapping, Get(old, "destination_id")).ok
            /\ Get(new, "source_id") = Resolve(action_mapping, Get(old, "source_id")).val
            /\ Get(new, "destination_id") = Resolve(action_mapping, Get(old, "destination_id")).val
            /\ Get(new, "id") \notin IdValues(workflow_in)

UntouchedAfter(k) ==
    \A b \in (k + 1)..BranchCount : Branches(workflow)[b] = Branches(workflow_in)[b]

FailedLookupState ==
    (pc = "error" /\ failed \in {"source_id", "destination_id", "start"}) =>
        /\ Get(workflow, "id") \notin IdValues(workflow_in)
        /\ \A p \in 1..ActionCount : IdOut(p) \notin IdValues(workflow_in)
        /\ failed = "start" =>
             /\ RewrittenBefore(BranchCount + 1)
             /\ Dangling(Get(workflow_in, "start"))
        /\ failed = "source_id" =>
             /\ RewrittenBefore(i)
             /\ UntouchedAfter(i - 1)
             /\ Dangling(Get(Branches(workflow_in)[i], "source_id"))
        /\ failed = "destination_id" =>
             /\ RewrittenBefore(i)
             /\ UntouchedAfter(i)
             /\ Dangling(Get(Branches(workflow_in)[i], "destination_id"))
             /\ Branches(workflow)[i] =
                  Put(Branches(workflow_in)[i], "source_id",
                      Resolve(action_mapping, Get(Branches(workflow_in)[i], "source_id")).val)
        /\ Get(workflow, "start") = Get(workflow_in, "start")
        /\ Get(workflow, "start") \notin CurrentActionIds

\* C10: when the lookup of a branch endpoint or of start fails, the workflow id
\* and every action id are new, the branches before the failing one are
\* rewritten, the failing field, the later branches and start hold their input
\* values, start is no action's current id, and no step follows the failure.
C10_FailureLeavesPartial == [](FailedLookupState) /\ [][pc # "error"]_vars

C10_Witness ==
    /\ pc = "error"
    /\ failed = "destination_id"
    /\ i = 2
    /\ BranchCount >= 2
    /\ Get(Branches(workflow)[1], "id") # Get(Branches(workflow_in)[1], "id")
====
